---- MODULE Spec2Model ----
(***************************************************************************)
(* The Tor uptime and content-change monitor of                            *)
(* src/tools/tor-watch/monitor/monitor.py: the poll loop run(), its two    *)
(* SQLite ledgers (checks, discovered_onions), the link discoverer, the    *)
(* content fingerprinter and the mirror query; and the alerting of the     *)
(* service health monitor of src/monitoring/health_monitor.py.             *)
(***************************************************************************)
EXTENDS Integers, Sequences, FiniteSets, TLC

VARIABLES
    targetsFile,        \* the lines of the targets file (cfg.targets_file)
    pc,                 \* position of run() in its loop
    cycle,              \* number of the current pass of `while True`
    targets,            \* run(): targets, the list loaded for this cycle
    idx,                \* run(): position of `target` in targets
    checked_at,         \* run(): checked_at of the current iteration
    response,           \* run(): response of the current iteration
    exc,                \* the exception the try block raised (cause, text)
    checks,             \* committed rows of table checks, in rowid order
    discovered_onions,  \* committed rows of table discovered_onions
    txn,                \* rows inserted on run()'s connection, not committed
    stdout,             \* the lines printed so far
    clock,              \* the wall clock utc_now() reads
    attempts,           \* history: one entry per poll attempt started
    rowAttempt,         \* history: the attempt that wrote each checks row
    wpc, wsource, wtodo, wnext, wtxn, werr,  \* two more connections in save_discoveries
    dblock,             \* the connection holding SQLite's write lock
    arg,                \* the arguments of a function called on its own
    result,             \* what that call returned
    service_states,     \* health monitor: service_states, per service id
    alerts,             \* health monitor: the send_alert calls so far
    round,              \* health monitor: number of the current run_health_checks
    position,           \* health monitor: position in SERVICES of the next check
    results             \* history: the check results processed so far

vars == <<targetsFile, pc, cycle, targets, idx, checked_at, response, exc,
          checks, discovered_onions, txn, stdout, clock, attempts, rowAttempt,
          wpc, wsource, wtodo, wnext, wtxn, werr, dblock, arg, result,
          service_states, alerts, round, position, results>>

monitorVars == <<targetsFile, pc, cycle, targets, idx, checked_at, response, exc,
                 checks, txn, stdout, attempts, rowAttempt>>

writerVars == <<wpc, wsource, wtodo, wnext, wtxn, werr, dblock>>

callVars == <<arg, result>>

healthVars == <<service_states, alerts, round, position, results>>

-----------------------------------------------------------------------------
(* Bounds of the model.                                                    *)

MaxAttempts == 2   \* poll attempts explored
MaxCycles == 2     \* passes of the poll loop explored
MaxLedger == 7     \* checks rows of the ledgers the mirror query is run on
MaxNodes == 2      \* text nodes of the documents that are fingerprinted
MaxLines == 3      \* lines of the target files that are read
MaxStored == 2     \* checks rows of the stores the monitor is restarted on
MaxRounds == 7     \* calls of run_health_checks explored

-----------------------------------------------------------------------------
(* Values.                                                                 *)

\* SQL NULL / Python None, and a present value.
Null == <<>>
Some(v) == <<v>>

\* A URL is <<scheme, host, path>>; a relative reference has scheme and host "".
T1 == <<"http", "h1", "/">>
T2 == <<"http", "h2", "/">>
T3 == <<"http", "h3", "/">>
RedirectUrl == <<"http", "h1", "/home">>

\* str.lower() on the strings of the model.
Lower(s) ==
    CASE s = "H" -> "h"
      [] s = "H2" -> "h2"
      [] OTHER -> s

\* ONION_RE: a 56 character base32 label followed by .onion, IGNORECASE.
\* The names of the model: h1, h2, h3 and H2 have a label of 56 base32
\* characters; "h3-" is h3 without its last label character, "xh3" is h3
\* with one more base32 character in front; every other string is no onion
\* name.
OnionLabelLen == 56
OnionShaped == {"h1", "h2", "h3", "H2"}
LabelLength(word) ==
    CASE word \in OnionShaped -> OnionLabelLen
      [] word = "h3-" -> OnionLabelLen - 1
      [] word = "xh3" -> OnionLabelLen + 1
      [] OTHER -> 0

\* The last OnionLabelLen label characters of a name, with its .onion.
LastChars(word) == IF word = "xh3" THEN "h3" ELSE word

\* ONION_RE.findall(word): the pattern is not anchored, so it matches where
\* OnionLabelLen label characters are followed by .onion, whatever precedes.
ONION_RE_findall(word) ==
    IF LabelLength(word) >= OnionLabelLen THEN {LastChars(word)} ELSE {}

\* ONION_RE.fullmatch(host)
ONION_RE_match(host) == LabelLength(host) = OnionLabelLen

\* A line of the targets file: leading blanks, text, trailing blanks.
\* text is a tuple of strings: <<>> (blank), <<"#", ...>> (comment), a URL,
\* or <<"0xFF">>, a byte sequence that is not UTF-8.
Line(lead, text, trail) == [lead |-> lead, text |-> text, trail |-> trail]

FileTwo ==
    << Line(0, T1, 0), Line(0, <<"#", "note">>, 0), Line(1, T2, 1), Line(0, <<>>, 0) >>
FileOne == << Line(0, T1, 0) >>
FileRepeat == << Line(0, T2, 0), Line(0, T1, 0), Line(0, T2, 0) >>
FileNone == << Line(1, <<"#", "note">>, 0), Line(2, <<>>, 0) >>
FileUndecodable == << Line(0, T1, 0), Line(0, <<"0xFF">>, 0) >>

Files == {FileTwo, FileOne, FileRepeat, FileNone, FileUndecodable}

\* The edits an operator makes to the file: <<before, after>>.
Edits ==
    { <<FileTwo, FileOne>>, <<FileNone, FileOne>>, <<FileOne, FileUndecodable>> }

\* An HTML body.  empty: the body is the empty string; frags: the text nodes
\* of the document in order, each a sequence of characters, two neighbours
\* being separated by markup without visible text (a tag, a comment, a script
\* or style block); title: the <title> element's text; raw: the onion-like
\* names of the raw text, as written; hrefs: the href of every <a href>;
\* rejected: html.parser rejects the markup (bs4 ParserRejectedMarkup).
Page(empty, frags, title, raw, hrefs, rejected) ==
    [empty |-> empty, frags |-> frags, title |-> title, raw |-> raw,
     hrefs |-> hrefs, rejected |-> rejected]

PEmpty == Page(TRUE, <<>>, Null, {}, {}, FALSE)
PHello == Page(FALSE, <<<<"H", "i">>>>, Some("T"), {}, {}, FALSE)
PLinks == Page(FALSE, <<<<"h", "i">>>>, Null, {"H2", "h3"}, {<<"http", "h3", "/x">>}, FALSE)
PBlank == Page(FALSE, <<>>, Some(""), {}, {<<"", "", "/about">>}, FALSE)
PBadHref == Page(FALSE, <<<<"h", "i">>>>, Null, {}, {<<"http", "[", "">>}, FALSE)
PRejected == Page(FALSE, <<>>, Null, {}, {}, TRUE)

\* What session.get can return: status, body, whether a redirect was followed.
Resp(status, html, redirected) ==
    [status_code |-> status, html |-> html, redirected |-> redirected]

Responses ==
    { Resp(200, PHello, FALSE), Resp(404, PLinks, TRUE), Resp(500, PBlank, FALSE),
      Resp(200, PBadHref, FALSE), Resp(200, PRejected, FALSE),
      Resp(200, PEmpty, FALSE) }

\* The transport failures session.get can raise.
TransportErrors == {"ConnectTimeout"}

\* How a write to the store can end: both steps done, the INSERT raised, the
\* commit raised leaving the transaction open (SQLITE_BUSY), or the commit
\* raised and SQLite rolled the transaction back.
StoreOutcomes == {"ok", "insert_error", "commit_busy", "commit_rollback"}

-----------------------------------------------------------------------------
(* The pure functions of monitor.py.                                       *)

\* utc_now(): the clock's reading.
utc_now == clock

\* load_targets(path): the stripped text of every line that is neither blank
\* nor a comment, in file order.
Strip(line) == line.text
\* Only blank lines are skipped.
Skipped_BlankOnly(text) == text = <<>>

Skipped(text) == text = <<>> \/ text[1] = "#"
\* Undecodable bytes are replaced (errors="replace"): the read never raises.
LoadRaises_Never(file) == FALSE

\* open(path, "r", encoding="utf-8") and the iteration over the file raise
\* (UnicodeDecodeError) on bytes that are not UTF-8.
LoadRaises(file) == \E i \in 1..Len(file) : file[i].text = <<"0xFF">>

load_targets(file) ==
    LET kept == SelectSeq(file, LAMBDA l : ~Skipped(Strip(l)))
    IN  [i \in 1..Len(kept) |-> Strip(kept[i])]

\* normalize_text(html): the visible fragments joined by single blanks,
\* whitespace collapsed, lowercased.
RECURSIVE LStrip(_)
LStrip(text) == IF text # <<>> /\ text[1] = " " THEN LStrip(Tail(text)) ELSE text

RECURSIVE RStrip(_)
RStrip(text) ==
    IF text # <<>> /\ text[Len(text)] = " "
    THEN RStrip(SubSeq(text, 1, Len(text) - 1))
    ELSE text

\* str.strip() of one text node.
StripText(text) == RStrip(LStrip(text))

RECURSIVE Join(_, _)
Join(strings, separator) ==
    IF strings = <<>> THEN <<>>
    ELSE IF Len(strings) = 1 THEN strings[1]
    ELSE strings[1] \o separator \o Join(Tail(strings), separator)

\* soup.get_text(" ", strip=True): every text node stripped, the empty ones
\* dropped, the others joined by one blank.
get_text(nodes) ==
    Join(SelectSeq([i \in 1..Len(nodes) |-> StripText(nodes[i])],
                   LAMBDA n : n # <<>>),
         <<" ">>)

\* re.sub(r"\s+", " ", text)
RECURSIVE Collapse(_)
Collapse(text) ==
    IF Len(text) <= 1 THEN text
    ELSE IF text[1] = " " /\ text[2] = " " THEN Collapse(Tail(text))
    ELSE <<text[1]>> \o Collapse(Tail(text))

\* str.lower() of a text.
LowerText(text) == [i \in 1..Len(text) |-> Lower(text[i])]

normalize_text(html) == LowerText(Collapse(get_text(html.frags)))

\* hashlib.sha256(...).hexdigest(), taken to be collision free.
Sha256(text) == <<"sha256", text>>

content_signature(html) == Sha256(normalize_text(html))

\* urljoin(base_url, href) and the ValueError it raises on a bracket host.
UrljoinRaises(href) == href[2] = "["
urljoin(base_url, href) ==
    IF href[1] = "" THEN <<base_url[1], base_url[2], href[3]>> ELSE href

\* urlparse(full).hostname, lowercased by line 59.
Hostname(full) == Lower(full[2])

\* discover_onion_candidates raises when urljoin does.
DiscoverRaises(html) == \E h \in html.hrefs : UrljoinRaises(h)

\* discover_onion_candidates(base_url, html): the regex matches of the raw
\* text as written, and the lowercased onion host of every anchor.
discover_onion_candidates(base_url, html) ==
    LET fromText == UNION {ONION_RE_findall(w) : w \in html.raw}
        fromAnchors == {Hostname(urljoin(base_url, a)) : a \in html.hrefs}
        found == fromText \cup {h \in fromAnchors : ONION_RE_match(h)}
    IN  {<<"http", host, "/">> : host \in found}

-----------------------------------------------------------------------------
(* The store: SQLite behind one sqlite3 connection per writer.             *)

MirrorLimit == 5

\* A connection with no open transaction.
NoTxn == [open |-> FALSE, checks |-> <<>>, rowAttempt |-> <<>>,
          discovered_onions |-> <<>>]

CheckRow(id, at, target, final_url, status_code, ok, error, sig, title) ==
    [id |-> id, checked_at |-> at, target_url |-> target, final_url |-> final_url,
     status_code |-> status_code, ok |-> ok, error |-> error,
     content_sig |-> sig, title |-> title]

\* INSERT INTO checks ... VALUES (?, ?, ?, ?, 1, NULL, ?, ?) of lines 146-152.
OkRow(id, at, target, final_url, status_code, sig, title) ==
    CheckRow(id, at, target, Some(final_url), Some(status_code), TRUE, Null, sig, title)

\* A fail row that keeps the requested URL as final_url.
FailRow_WithFinalUrl(id, at, target, error) ==
    CheckRow(id, at, target, Some(target), Null, FALSE, Some(error), Null, Null)

\* INSERT INTO checks ... VALUES (?, ?, NULL, NULL, 0, ?, NULL, NULL) of lines 169-175.
FailRow(id, at, target, error) ==
    CheckRow(id, at, target, Null, Null, FALSE, Some(error), Null, Null)

\* INSERT OR REPLACE keyed by target_url: the target's older rows go.
InsertCheck_Upsert(table, row) ==
    SelectSeq(table, LAMBDA r : r.target_url # row.target_url) \o <<row>>

\* INSERT INTO checks: a new row after the rows the connection sees.
InsertCheck(table, row) == Append(table, row)

\* UNIQUE(discovered_url): the key without the source.
SameKey_UrlOnly(r, source, url) == r.discovered_url = url

\* UNIQUE(source_url, discovered_url) of init_db.
SameKey(r, source, url) == r.source_url = source /\ r.discovered_url = url

\* A plain INSERT: a conflict aborts the statement.
OnConflict_Abort == "ABORT"

\* The conflict clause of the INSERT of line 100.
OnConflict == "IGNORE"

KeyPresent(table, source, url) ==
    \E i \in 1..Len(table) : SameKey(table[i], source, url)

\* sqlite3.IntegrityError: a conflicting INSERT that is not OR IGNORE.
InsertRaises(table, source, url) ==
    OnConflict # "IGNORE" /\ KeyPresent(table, source, url)

\* INSERT OR REPLACE: the conflicting row is deleted and a new one inserted.
InsertOrReplace(table, source, url, at) ==
    Append(SelectSeq(table, LAMBDA r : ~(r.source_url = source
                                         /\ r.discovered_url = url)),
           [id |-> Len(table) + 1, discovered_at |-> at,
            source_url |-> source, discovered_url |-> url])

\* INSERT OR IGNORE INTO discovered_onions on the rows the connection sees:
\* a new row unless one has the same (source_url, discovered_url).
InsertOrIgnore(table, source, url, at) ==
    IF KeyPresent(table, source, url)
    THEN table
    ELSE Append(table, [id |-> Len(table) + 1, discovered_at |-> at,
                        source_url |-> source, discovered_url |-> url])

\* The loop of save_discoveries over `order`, the iteration order of the set.
RECURSIVE InsertAll(_, _, _, _)
InsertAll(table, source, order, at) ==
    IF order = <<>> THEN table
    ELSE InsertAll(InsertOrIgnore(table, source, Head(order), at),
                   source, Tail(order), at)

Orders(S) ==
    {f \in [1..Cardinality(S) -> S] : \A i, j \in 1..Cardinality(S) : f[i] = f[j] => i = j}

\* LIMIT one short of the bound.
Take_OneLess(seq, n) == SubSeq(seq, 1, IF Len(seq) < n - 1 THEN Len(seq) ELSE n - 1)

\* No LIMIT clause.
Take_All(seq, n) == seq

\* LIMIT n.
Take(seq, n) == SubSeq(seq, 1, IF Len(seq) < n THEN Len(seq) ELSE n)

\* The WHERE clause without the test of content_sig.
Matching_AnySignature(rows, signature, current_target) ==
    SelectSeq(rows, LAMBDA r : r.content_sig # Null /\ r.target_url # current_target)

\* The WHERE clause without `AND target_url <> ?`.
Matching_NoExclusion(rows, signature, current_target) ==
    SelectSeq(rows, LAMBDA r : r.content_sig = Some(signature))

\* SELECT DISTINCT target_url ... : SQLite scans checks in rowid order and
\* keeps, for each target_url, the first row that passes the WHERE clause.
Matching(rows, signature, current_target) ==
    SelectSeq(rows, LAMBDA r : r.content_sig = Some(signature)
                               /\ r.target_url # current_target)

DistinctFirst(rows) ==
    LET keep == {i \in 1..Len(rows) :
                    \A j \in 1..(i - 1) : rows[j].target_url # rows[i].target_url}
        F[i \in 0..Len(rows)] ==
            IF i = 0 THEN <<>>
            ELSE IF i \in keep THEN Append(F[i - 1], rows[i]) ELSE F[i - 1]
    IN  F[Len(rows)]

\* ORDER BY checked_at DESC: the sorter is stable, ties keep scan order.
InsertDesc(sorted, r) ==
    LET n == Cardinality({i \in 1..Len(sorted) : sorted[i].checked_at >= r.checked_at})
    IN  SubSeq(sorted, 1, n) \o <<r>> \o SubSeq(sorted, n + 1, Len(sorted))

OrderByCheckedAtDesc(rows) ==
    LET F[i \in 0..Len(rows)] ==
            IF i = 0 THEN <<>> ELSE InsertDesc(F[i - 1], rows[i])
    IN  F[Len(rows)]

recently_seen_signature(rows, signature, current_target) ==
    LET picked == Take(OrderByCheckedAtDesc(
                           DistinctFirst(Matching(rows, signature, current_target))),
                       MirrorLimit)
    IN  [i \in 1..Len(picked) |-> picked[i].target_url]

-----------------------------------------------------------------------------
(* run(): the poll loop.                                                   *)

target == targets[idx]
html == response.html
final_url == IF response.redirected THEN RedirectUrl ELSE target

\* sig = content_signature(html) if html else None
sig == IF html.empty THEN Null ELSE Some(content_signature(html))

\* title_text = title.get_text(strip=True) if title else None
title_text == html.title

\* response.raise_for_status(): 4xx and 5xx raise.
FetchRaises_OnErrorStatus(status_code) == status_code >= 400

\* Whether session.get raises for a response with this HTTP status.
FetchRaises(status_code) == FALSE

Line_ok(att) == [kind |-> "ok", att |-> att, target |-> target, urls |-> <<>>]
Line_fail(att) == [kind |-> "fail", att |-> att, target |-> target, urls |-> <<>>]
Line_redirect(att) ==
    [kind |-> "redirect", att |-> att, target |-> target, urls |-> <<final_url>>]
Line_mirror(att, mirrors) ==
    [kind |-> "mirror", att |-> att, target |-> target, urls |-> mirrors]

att == Len(attempts)

\* The handler names requests.RequestException only: nothing raised after the
\* fetch is caught.
Raise_Uncaught(cause, text) ==
    /\ exc' = Some(<<cause, text>>)
    /\ attempts' = [attempts EXCEPT ![att].raised = Append(@, cause)]
    /\ pc' = "halted"

Raise(cause, text) ==
    /\ exc' = Some(<<cause, text>>)
    /\ attempts' = [attempts EXCEPT ![att].raised = Append(@, cause)]
    /\ pc' = "handler"

\* The end of one iteration of `for target in targets`.
NextTarget ==
    IF idx < Len(targets)
    THEN /\ idx' = idx + 1
         /\ pc' = "fetch"
    ELSE /\ idx' = idx
         /\ pc' = "sleep"

\* What run()'s connection sees: the open transaction, or the store.
View ==
    IF txn.open THEN txn
    ELSE [open |-> TRUE, checks |-> checks, rowAttempt |-> rowAttempt,
          discovered_onions |-> discovered_onions]

\* No commit after the INSERT: the rows stay in the open transaction.
StoreWrite_Deferred(wrote, partial, outcome) ==
    /\ txn' = IF outcome = "insert_error" THEN partial ELSE wrote
    /\ UNCHANGED <<checks, rowAttempt, discovered_onions>>

\* conn.execute(INSERT ...) and conn.commit() on run()'s connection: what the
\* store and the open transaction hold afterwards.  `wrote` is the open
\* transaction after every INSERT ran, `partial` after those before the one
\* that raised.
StoreWrite(wrote, partial, outcome) ==
    CASE outcome = "ok" ->
            /\ checks' = wrote.checks
            /\ rowAttempt' = wrote.rowAttempt
            /\ discovered_onions' = wrote.discovered_onions
            /\ txn' = NoTxn
      [] outcome = "insert_error" ->
            /\ txn' = partial
            /\ UNCHANGED <<checks, rowAttempt, discovered_onions>>
      [] outcome = "commit_busy" ->
            /\ txn' = wrote
            /\ UNCHANGED <<checks, rowAttempt, discovered_onions>>
      [] outcome = "commit_rollback" ->
            /\ txn' = NoTxn
            /\ UNCHANGED <<checks, rowAttempt, discovered_onions>>

\* The transaction after INSERT INTO checks of `row` for the current attempt.
WithCheck(row) ==
    [View EXCEPT !.checks = InsertCheck(@, row), !.rowAttempt = Append(@, att)]

NextCheckId == Len(View.checks) + 1

\* The except block ends the for loop.
AfterFailure_Break ==
    /\ idx' = idx
    /\ pc' = "sleep"

\* The loop goes on with the next target after the except block.
AfterFailure == NextTarget

\* line 135: targets = load_targets(cfg.targets_file)
\* The list is read before the while loop and kept.
LoadTargets_Cached ==
    /\ pc = "load"
    /\ IF LoadRaises(targetsFile) /\ cycle = 1
       THEN /\ pc' = "halted"
            /\ UNCHANGED <<targets, idx>>
       ELSE /\ targets' = IF cycle = 1 THEN load_targets(targetsFile) ELSE targets
            /\ idx' = 1
            /\ pc' = IF targets' = <<>> THEN "sleep" ELSE "fetch"
    /\ UNCHANGED <<targetsFile, cycle, checked_at, response, exc, checks,
                   discovered_onions, txn, stdout, clock, attempts, rowAttempt>>
    /\ UNCHANGED writerVars
    /\ UNCHANGED healthVars
    /\ UNCHANGED callVars

\* line 135: targets = load_targets(cfg.targets_file), outside every try:
\* an exception of load_targets leaves run().
LoadTargets ==
    /\ pc = "load"
    /\ IF LoadRaises(targetsFile)
       THEN /\ pc' = "halted"
            /\ UNCHANGED <<targets, idx>>
       ELSE /\ targets' = load_targets(targetsFile)
            /\ idx' = 1
            /\ pc' = IF load_targets(targetsFile) = <<>> THEN "sleep" ELSE "fetch"
    /\ UNCHANGED <<targetsFile, cycle, checked_at, response, exc, checks,
                   discovered_onions, txn, stdout, clock, attempts, rowAttempt>>
    /\ UNCHANGED writerVars
    /\ UNCHANGED healthVars
    /\ UNCHANGED callVars

\* lines 137-144: checked_at, session.get, fingerprint and title.
NewAttempt(fetched, status, raised) ==
    Append(attempts, [target |-> target, cycle |-> cycle, pos |-> idx,
                      fetched |-> fetched, status |-> status, raised |-> raised])

FetchFails(e) ==
    /\ exc' = Some(<<"transport", e>>)
    /\ attempts' = NewAttempt(FALSE, Null, <<"transport">>)
    /\ response' = Null
    /\ pc' = "handler"

FetchReturns(r) ==
    /\ response' = r
    /\ IF FetchRaises(r.status_code)
       THEN /\ exc' = Some(<<"transport", "HTTPError">>)
            /\ attempts' = NewAttempt(TRUE, Some(r.status_code), <<"status">>)
            /\ pc' = "handler"
       ELSE IF r.html.rejected
       THEN /\ exc' = Some(<<"parse", "ParserRejectedMarkup">>)
            /\ attempts' = NewAttempt(TRUE, Some(r.status_code), <<"parse">>)
            /\ pc' = "handler"
       ELSE /\ exc' = Null
            /\ attempts' = NewAttempt(TRUE, Some(r.status_code), <<>>)
            /\ pc' = "record"

Fetch ==
    /\ pc = "fetch"
    /\ Len(attempts) < MaxAttempts
    /\ checked_at' = utc_now
    /\ clock' = clock + 1
    /\ \/ \E e \in TransportErrors : FetchFails(e)
       \/ \E r \in Responses : FetchReturns(r)
    /\ UNCHANGED <<targetsFile, cycle, targets, idx, checks, discovered_onions,
                   txn, stdout, rowAttempt>>
    /\ UNCHANGED writerVars
    /\ UNCHANGED healthVars
    /\ UNCHANGED callVars

\* lines 146-153: INSERT the ok row and commit.
RecordOk ==
    /\ pc = "record"
    /\ \E outcome \in StoreOutcomes :
          /\ StoreWrite(WithCheck(OkRow(NextCheckId, checked_at, target, final_url,
                                        response.status_code, sig, title_text)),
                        txn, outcome)
          /\ IF outcome = "ok"
             THEN /\ pc' = "discover"
                  /\ UNCHANGED <<exc, attempts>>
             ELSE Raise("store", "OperationalError")
    /\ UNCHANGED <<targetsFile, cycle, targets, idx, checked_at, response,
                   stdout, clock>>
    /\ UNCHANGED writerVars
    /\ UNCHANGED healthVars
    /\ UNCHANGED callVars

\* save_discoveries(conn, target, discoveries) on run()'s connection, the set
\* iterated in `order`; an INSERT that raises does so after `done` of them.
save_discoveries(source, order, outcome, done) ==
    StoreWrite([View EXCEPT !.discovered_onions =
                    InsertAll(@, source, order, utc_now)],
               [View EXCEPT !.discovered_onions =
                    InsertAll(@, source, SubSeq(order, 1, done), utc_now)],
               outcome)

\* An INSERT of save_discoveries raises sqlite3.IntegrityError.
SaveRaises(source, discoveries) ==
    \E url \in discoveries : InsertRaises(View.discovered_onions, source, url)

\* The discoveries are filed under the URL the redirects ended at.
source_url_FinalUrl == final_url

\* line 157: save_discoveries(conn, target, discoveries)
source_url == target

\* lines 155-157: discover the onion links and save them.
Discover ==
    /\ pc = "discover"
    /\ IF DiscoverRaises(html)
       THEN /\ Raise("discovery", "ValueError")
            /\ UNCHANGED <<checks, rowAttempt, discovered_onions, txn>>
       ELSE LET discoveries == discover_onion_candidates(final_url, html)
            IN  IF discoveries = {}
                THEN /\ pc' = "mirror"
                     /\ UNCHANGED <<exc, attempts, checks, rowAttempt,
                                    discovered_onions, txn>>
                ELSE IF SaveRaises(source_url, discoveries)
                THEN /\ Raise("integrity", "IntegrityError")
                     /\ UNCHANGED <<checks, rowAttempt, discovered_onions, txn>>
                ELSE \E order \in Orders(discoveries), outcome \in StoreOutcomes,
                        done \in 0..(Cardinality(discoveries) - 1) :
                        /\ outcome # "insert_error" => done = 0
                        /\ save_discoveries(source_url, order, outcome, done)
                        /\ IF outcome = "ok"
                           THEN /\ pc' = "mirror"
                                /\ UNCHANGED <<exc, attempts>>
                           ELSE Raise("store", "OperationalError")
    /\ UNCHANGED <<targetsFile, cycle, targets, idx, checked_at, response,
                   stdout, clock>>
    /\ UNCHANGED writerVars
    /\ UNCHANGED healthVars
    /\ UNCHANGED callVars

\* lines 159-167: the mirror query and the mirror, redirect and ok lines.
Mirror ==
    /\ pc = "mirror"
    /\ \/ /\ sig # Null
          /\ Raise("mirror", "OperationalError")
          /\ UNCHANGED <<stdout, idx>>
       \/ LET mirrors == IF sig # Null
                         THEN recently_seen_signature(checks, sig[1], target)
                         ELSE <<>>
          IN  /\ stdout' = stdout
                     \o (IF mirrors # <<>> THEN <<Line_mirror(att, mirrors)>> ELSE <<>>)
                     \o (IF final_url # target THEN <<Line_redirect(att)>> ELSE <<>>)
                     \o <<Line_ok(att)>>
              /\ NextTarget
              /\ UNCHANGED <<exc, attempts>>
    /\ UNCHANGED <<targetsFile, cycle, targets, checked_at, response, checks,
                   discovered_onions, txn, clock, rowAttempt>>
    /\ UNCHANGED writerVars
    /\ UNCHANGED healthVars
    /\ UNCHANGED callVars

\* lines 168-177: except Exception: INSERT the fail row, commit, print.
\* An exception raised here leaves run().
Handler ==
    /\ pc = "handler"
    /\ \E outcome \in StoreOutcomes :
          /\ StoreWrite(WithCheck(FailRow(NextCheckId, checked_at, target, exc[1][2])),
                        txn, outcome)
          /\ IF outcome = "ok"
             THEN /\ stdout' = Append(stdout, Line_fail(att))
                  /\ AfterFailure
             ELSE /\ pc' = "halted"
                  /\ UNCHANGED <<stdout, idx>>
    /\ UNCHANGED <<targetsFile, cycle, targets, checked_at, response, exc, clock,
                   attempts>>
    /\ UNCHANGED writerVars
    /\ UNCHANGED healthVars
    /\ UNCHANGED callVars

\* The operator edits the targets file while the monitor runs.
EditFile ==
    /\ pc \in {"load", "fetch", "record", "discover", "mirror", "handler", "sleep"}
    /\ \E e \in Edits : targetsFile = e[1] /\ targetsFile' = e[2]
    /\ UNCHANGED <<pc, cycle, targets, idx, checked_at, response, exc, checks,
                   discovered_onions, txn, stdout, clock, attempts, rowAttempt>>
    /\ UNCHANGED writerVars
    /\ UNCHANGED healthVars
    /\ UNCHANGED callVars

\* line 179: time.sleep(cfg.interval_s), then the next pass.
Sleep ==
    /\ pc = "sleep"
    /\ cycle < MaxCycles
    /\ cycle' = cycle + 1
    /\ clock' = clock + 1
    /\ pc' = "load"
    /\ UNCHANGED <<targetsFile, targets, idx, checked_at, response, exc, checks,
                   discovered_onions, txn, stdout, attempts, rowAttempt>>
    /\ UNCHANGED writerVars
    /\ UNCHANGED healthVars
    /\ UNCHANGED callVars

-----------------------------------------------------------------------------
(* save_discoveries called on two more connections to the same database.   *)
(* SQLite lets one connection write at a time: an INSERT takes the write   *)
(* lock, or waits in the busy handler while another connection holds it,   *)
(* and the lock is held until commit.                                      *)

Writers == {1, 2}

Candidates == {<<"http", "h2", "/">>, <<"http", "h3", "/">>}

\* What connection w sees: its open transaction, or the store.
WView(w) == IF wtxn[w].open THEN wtxn[w].rows ELSE discovered_onions

\* lines 97-104: one pass of the loop on connection w.  An exception leaves
\* save_discoveries; the connection is closed and its transaction rolled back.
WInsert(w) ==
    /\ wpc[w] = "insert"
    /\ wnext[w] <= Len(wtodo[w])
    /\ dblock \in {0, w}
    /\ IF InsertRaises(WView(w), wsource[w], wtodo[w][wnext[w]])
       THEN /\ werr' = [werr EXCEPT ![w] = Some("IntegrityError")]
            /\ wpc' = [wpc EXCEPT ![w] = "done"]
            /\ wtxn' = [wtxn EXCEPT ![w] = [open |-> FALSE, rows |-> <<>>]]
            /\ dblock' = 0
            /\ UNCHANGED wnext
       ELSE /\ wtxn' = [wtxn EXCEPT ![w] =
                           [open |-> TRUE,
                            rows |-> InsertOrIgnore(WView(w), wsource[w],
                                                    wtodo[w][wnext[w]], utc_now)]]
            /\ wnext' = [wnext EXCEPT ![w] = @ + 1]
            /\ dblock' = w
            /\ UNCHANGED <<werr, wpc>>
    /\ UNCHANGED <<wsource, wtodo, discovered_onions, clock>>
    /\ UNCHANGED monitorVars
    /\ UNCHANGED healthVars
    /\ UNCHANGED callVars

\* line 105: conn.commit() on connection w.
WCommit(w) ==
    /\ wpc[w] = "insert"
    /\ wnext[w] > Len(wtodo[w])
    /\ discovered_onions' = WView(w)
    /\ wtxn' = [wtxn EXCEPT ![w] = [open |-> FALSE, rows |-> <<>>]]
    /\ dblock' = IF dblock = w THEN 0 ELSE dblock
    /\ wpc' = [wpc EXCEPT ![w] = "done"]
    /\ clock' = clock + 1
    /\ UNCHANGED <<wsource, wtodo, wnext, werr>>
    /\ UNCHANGED monitorVars
    /\ UNCHANGED healthVars
    /\ UNCHANGED callVars

-----------------------------------------------------------------------------
(* discover_onion_candidates called on pages whose raw text holds onion    *)
(* names of several lengths and letter cases, in anchors and outside them. *)

DHrefs == {<<"http", "H2", "/x">>, <<"http", "xh3", "/">>, <<"http", "h3-", "/">>,
           <<"", "", "/about">>}
DWords == {"h2", "H2", "xh3", "h3-"}
DBases == {T1, <<"http", "example", "/">>}

\* The names written in the anchors of a page are part of its raw text.
DPage(words, hrefs) ==
    Page(FALSE, <<>>, Null, words \cup {h[2] : h \in {a \in hrefs : a[1] # ""}},
         hrefs, FALSE)

\* line 155: discoveries = discover_onion_candidates(final_url, html)
DCall ==
    /\ pc = "discovery"
    /\ result = Null
    /\ result' = Some(discover_onion_candidates(arg[1], arg[2]))
    /\ UNCHANGED <<targetsFile, pc, cycle, targets, idx, checked_at, response, exc,
                   checks, discovered_onions, txn, stdout, clock, attempts, rowAttempt>>
    /\ UNCHANGED writerVars
    /\ UNCHANGED healthVars
    /\ UNCHANGED arg

-----------------------------------------------------------------------------
(* content_signature called on two documents of up to MaxNodes text nodes. *)

TextNodes ==
    { <<"h">>, <<"H">>, <<" ">>, <<"h", "h">>, <<" ", "h">>, <<"h", " ", "h">>,
      <<"h", " ", " ", "H">> }

Docs == UNION {[1..n -> TextNodes] : n \in 0..MaxNodes}

DocPage(nodes) == Page(FALSE, nodes, Null, {}, {}, FALSE)

\* line 141 for two bodies: sig = content_signature(html)
TCall ==
    /\ pc = "text"
    /\ result = Null
    /\ result' = Some(<<content_signature(DocPage(arg[1])),
                        content_signature(DocPage(arg[2]))>>)
    /\ UNCHANGED <<targetsFile, pc, cycle, targets, idx, checked_at, response, exc,
                   checks, discovered_onions, txn, stdout, clock, attempts, rowAttempt>>
    /\ UNCHANGED writerVars
    /\ UNCHANGED healthVars
    /\ UNCHANGED arg

-----------------------------------------------------------------------------
(* load_targets called on files of up to MaxLines lines.                   *)

LineChoices ==
    { Line(0, T1, 0), Line(1, T2, 1), Line(0, <<"#", "note">>, 0),
      Line(1, <<"#", "note">>, 0), Line(0, <<>>, 0), Line(2, <<>>, 0) }

FilesRead == UNION {[1..n -> LineChoices] : n \in 0..MaxLines}

\* line 135: targets = load_targets(cfg.targets_file)
LCall ==
    /\ pc = "read"
    /\ result = Null
    /\ result' = Some(load_targets(arg))
    /\ UNCHANGED <<targetsFile, pc, cycle, targets, idx, checked_at, response, exc,
                   checks, discovered_onions, txn, stdout, clock, attempts, rowAttempt>>
    /\ UNCHANGED writerVars
    /\ UNCHANGED healthVars
    /\ UNCHANGED arg

-----------------------------------------------------------------------------
(* init_db called on a database file: new, or left by an earlier run with  *)
(* up to MaxStored checks rows.  A table is Null while it does not exist.  *)

\* DROP TABLE IF EXISTS, then CREATE TABLE.
CreateTable_DropFirst(table) == Some(<<>>)

\* CREATE TABLE IF NOT EXISTS: a table that exists is left as it is.
CreateTableIfNotExists(table) == IF table = Null THEN Some(<<>>) ELSE table

\* CREATE TABLE raises "table already exists" without the IF NOT EXISTS clause.
IfNotExists == TRUE
CreateRaises(table) == ~IfNotExists /\ table # Null

init_db(db) ==
    [raised |-> CreateRaises(db.checks) \/ CreateRaises(db.discovered_onions),
     db |-> [checks |-> CreateTableIfNotExists(db.checks),
             discovered_onions |-> CreateTableIfNotExists(db.discovered_onions)]]

\* The rows an earlier run left: ok and fail rows of T1 and T2.
StoredRow(id, kind) ==
    CASE kind = 1 -> OkRow(id, id, T1, T1, 200, Some(content_signature(PHello)), Some("T"))
      [] kind = 2 -> OkRow(id, id, T2, RedirectUrl, 404, Null, Null)
      [] kind = 3 -> FailRow(id, id, T1, "ConnectTimeout")
      [] kind = 4 -> FailRow(id, id, T2, "ValueError")

StoredChecks ==
    UNION {{[i \in 1..n |-> StoredRow(i, k[i])] : k \in [1..n -> 1..4]} : n \in 0..MaxStored}

StoredDiscoveries ==
    { <<>>, InsertOrIgnore(<<>>, T1, T2, 1),
      InsertOrIgnore(InsertOrIgnore(<<>>, T1, T2, 1), T1, T3, 2) }

Databases ==
    {[checks |-> Null, discovered_onions |-> Null]}
        \cup {[checks |-> Some(c), discovered_onions |-> Some(d)] :
                 c \in StoredChecks, d \in StoredDiscoveries}

\* lines 131-132: conn = sqlite3.connect(cfg.db_path); init_db(conn)
ICall ==
    /\ pc = "init"
    /\ result = Null
    /\ result' = Some(init_db(arg))
    /\ UNCHANGED <<targetsFile, pc, cycle, targets, idx, checked_at, response, exc,
                   checks, discovered_onions, txn, stdout, clock, attempts, rowAttempt>>
    /\ UNCHANGED writerVars
    /\ UNCHANGED healthVars
    /\ UNCHANGED arg

-----------------------------------------------------------------------------
(* recently_seen_signature called on ledgers of up to MaxLedger rows, each *)
(* row written as run() writes the ok row of a poll of the next target of  *)
(* a long list, or of a second poll of the list's first target.            *)

QHosts == <<"q1", "q2", "q3", "q4", "q5", "q6", "q7", "q8", "q9">>
QTarget(k) == <<"http", QHosts[k], "/">>
QTargets == {QTarget(k) : k \in 1..Len(QHosts)}
QSigs == {content_signature(PHello), content_signature(PBlank)}

\* lines 146-153 for one more poll: a new target or the first one again.
QRecord ==
    /\ pc = "query"
    /\ result = Null
    /\ Len(checks) < MaxLedger
    /\ \E again \in BOOLEAN, s \in QSigs :
          /\ again => (checks # <<>> /\ s = content_signature(PHello))
          /\ checks' = InsertCheck(checks,
                           OkRow(Len(checks) + 1, utc_now,
                                 IF again THEN QTarget(1) ELSE QTarget(Len(checks) + 1),
                                 IF again THEN QTarget(1) ELSE QTarget(Len(checks) + 1),
                                 200, Some(s), Null))
    /\ clock' = clock + 1
    /\ UNCHANGED <<targetsFile, pc, cycle, targets, idx, checked_at, response, exc,
                   discovered_onions, txn, stdout, attempts, rowAttempt>>
    /\ UNCHANGED writerVars
    /\ UNCHANGED healthVars
    /\ UNCHANGED callVars

\* lines 159-160: mirrors = recently_seen_signature(conn, sig, target)
QQuery ==
    /\ pc = "query"
    /\ result = Null
    /\ \E s \in QSigs, k \in 1..(Len(checks) + 1) :
          /\ arg' = <<s, QTarget(k)>>
          /\ result' = Some(recently_seen_signature(checks, s, QTarget(k)))
    /\ UNCHANGED <<targetsFile, pc, cycle, targets, idx, checked_at, response, exc,
                   checks, discovered_onions, txn, stdout, clock, attempts, rowAttempt>>
    /\ UNCHANGED writerVars
    /\ UNCHANGED healthVars

-----------------------------------------------------------------------------
(* The health monitor: run_health_checks calls process_health_check for    *)
(* each service of SERVICES in turn, round after round.                    *)

\* CONFIG['failure_threshold'], by default.
failure_threshold == 3

\* SERVICES, in the order of the dict: a service that alerts and the one
\* marked optional.
SERVICES == <<"fresh_api", "fresh_api_vpn">>
ServiceIds == {SERVICES[i] : i \in 1..Len(SERVICES)}

\* Every service is treated as if it were not optional.
is_optional_Never(service_id) == FALSE

\* service_config.get('optional', False)
is_optional(service_id) == service_id = "fresh_api_vpn"

\* The statuses check_service reports for a service.
StatusesOf(service_id) ==
    IF service_id = "fresh_api" THEN {"healthy", "degraded", "down"}
    ELSE {"healthy", "timeout"}

\* lines 264-271: the state of a service, created at its first check.
StateOf(service_id) ==
    IF service_states[service_id] = Null
    THEN [consecutive_failures |-> 0, last_alert_time |-> Null,
          last_status |-> "unknown"]
    ELSE service_states[service_id][1]

Alert(title, service_id, status) ==
    [title |-> title, service |-> service_id, status |-> status,
     check |-> Len(results) + 1]

\* The down alert is repeated at every failed check from the threshold on.
ReachesThreshold_AtLeast(failures) == failures >= failure_threshold

\* line 290: state['consecutive_failures'] == CONFIG['failure_threshold']
ReachesThreshold(failures) == failures = failure_threshold

\* process_health_check(service_id, result, service_config), lines 261-295,
\* for the next service of the round.
process_health_check ==
    /\ pc = "health"
    /\ round <= MaxRounds
    /\ LET service_id == SERVICES[position]
           state == StateOf(service_id)
       IN  \E status \in StatusesOf(service_id) :
              /\ results' = Append(results, [service |-> service_id,
                                             healthy |-> status = "healthy"])
              /\ IF status \in {"healthy"}
                 THEN /\ alerts' =
                            IF state.consecutive_failures >= failure_threshold
                            THEN Append(alerts, Alert("Service Recovered", service_id, status))
                            ELSE alerts
                      /\ service_states' =
                            [service_states EXCEPT ![service_id] =
                                Some([state EXCEPT !.consecutive_failures = 0,
                                                   !.last_status = "healthy"])]
                 ELSE /\ service_states' =
                            [service_states EXCEPT ![service_id] =
                                Some([state EXCEPT !.consecutive_failures = @ + 1,
                                                   !.last_status = status])]
                      /\ alerts' =
                            IF /\ ReachesThreshold(state.consecutive_failures + 1)
                               /\ ~is_optional(service_id)
                            THEN Append(alerts, Alert("Service Down", service_id, status))
                            ELSE alerts
    /\ IF position < Len(SERVICES)
       THEN /\ position' = position + 1
            /\ round' = round
       ELSE /\ position' = 1
            /\ round' = round + 1
    /\ UNCHANGED <<targetsFile, pc, cycle, targets, idx, checked_at, response, exc,
                   checks, discovered_onions, txn, stdout, clock, attempts, rowAttempt>>
    /\ UNCHANGED writerVars
    /\ UNCHANGED callVars

-----------------------------------------------------------------------------
(* Specifications.                                                         *)

MonitorIdle ==
    /\ targetsFile = <<>>
    /\ cycle = 1
    /\ targets = <<>>
    /\ idx = 1
    /\ checked_at = 0
    /\ response = Null
    /\ exc = Null
    /\ checks = <<>>
    /\ txn = NoTxn
    /\ stdout = <<>>
    /\ attempts = <<>>
    /\ rowAttempt = <<>>

\* The health monitor is not running.
HealthIdle ==
    /\ service_states = <<>>
    /\ alerts = <<>>
    /\ round = 1
    /\ position = 1
    /\ results = <<>>

NoCall ==
    /\ arg = Null
    /\ result = Null

WritersIdle ==
    /\ wpc = [w \in Writers |-> "done"]
    /\ wsource = [w \in Writers |-> T1]
    /\ wtodo = [w \in Writers |-> <<>>]
    /\ wnext = [w \in Writers |-> 1]
    /\ wtxn = [w \in Writers |-> [open |-> FALSE, rows |-> <<>>]]
    /\ werr = [w \in Writers |-> Null]
    /\ dblock = 0

\* run() after init_db on a new database: lines 123-132.
Init ==
    /\ targetsFile \in Files
    /\ pc = "load"
    /\ cycle = 1
    /\ targets = <<>>
    /\ idx = 1
    /\ checked_at = 0
    /\ response = Null
    /\ exc = Null
    /\ checks = <<>>
    /\ discovered_onions = <<>>
    /\ txn = NoTxn
    /\ stdout = <<>>
    /\ clock = 1
    /\ attempts = <<>>
    /\ rowAttempt = <<>>
    /\ WritersIdle
    /\ HealthIdle
    /\ NoCall

Next ==
    \/ LoadTargets
    \/ Fetch
    \/ RecordOk
    \/ Discover
    \/ Mirror
    \/ Handler
    \/ Sleep
    \/ EditFile

Spec == Init /\ [][Next]_vars

\* Two connections entering save_discoveries, the ledger empty or holding a
\* row one of them is about to insert again.
WInit ==
    /\ pc = "off"
    /\ MonitorIdle
    /\ clock = 1
    /\ discovered_onions \in
          { <<>>,
            << [id |-> 1, discovered_at |-> 0, source_url |-> T1,
                discovered_url |-> <<"http", "h2", "/">>] >> }
    /\ wpc = [w \in Writers |-> "insert"]
    /\ wsource \in [Writers -> {T1, T2}]
    /\ wtodo \in [Writers -> UNION {Orders(D) : D \in SUBSET Candidates}]
    /\ wnext = [w \in Writers |-> 1]
    /\ wtxn = [w \in Writers |-> [open |-> FALSE, rows |-> <<>>]]
    /\ werr = [w \in Writers |-> Null]
    /\ dblock = 0
    /\ HealthIdle
    /\ NoCall

WNext == \E w \in Writers : WInsert(w) \/ WCommit(w)

SpecWriters == WInit /\ [][WNext]_vars

\* The mirror query on a ledger built row by row from an empty store.
QInit ==
    /\ pc = "query"
    /\ MonitorIdle
    /\ clock = 1
    /\ discovered_onions = <<>>
    /\ WritersIdle
    /\ HealthIdle
    /\ NoCall

QNext == QRecord \/ QQuery

SpecQuery == QInit /\ [][QNext]_vars

\* One call of discover_onion_candidates on any of the pages.
DInit ==
    /\ pc = "discovery"
    /\ MonitorIdle
    /\ clock = 1
    /\ discovered_onions = <<>>
    /\ WritersIdle
    /\ HealthIdle
    /\ arg \in {<<b, DPage(w, h)>> : b \in DBases, w \in SUBSET DWords, h \in SUBSET DHrefs}
    /\ result = Null

DNext == DCall

SpecDiscover == DInit /\ [][DNext]_vars

\* One fingerprint of each of two documents.
TInit ==
    /\ pc = "text"
    /\ MonitorIdle
    /\ clock = 1
    /\ discovered_onions = <<>>
    /\ WritersIdle
    /\ HealthIdle
    /\ arg \in Docs \X Docs
    /\ result = Null

TNext == TCall

SpecText == TInit /\ [][TNext]_vars

\* One call of load_targets on any of the files.
LInit ==
    /\ pc = "read"
    /\ MonitorIdle
    /\ clock = 1
    /\ discovered_onions = <<>>
    /\ WritersIdle
    /\ HealthIdle
    /\ arg \in FilesRead
    /\ result = Null

LNext == LCall

SpecLoad == LInit /\ [][LNext]_vars

\* The start of run() on any of the database files.
IInit ==
    /\ pc = "init"
    /\ MonitorIdle
    /\ clock = 1
    /\ discovered_onions = <<>>
    /\ WritersIdle
    /\ HealthIdle
    /\ arg \in Databases
    /\ result = Null

INext == ICall

SpecRestart == IInit /\ [][INext]_vars

\* main() of the health monitor: no service has been checked yet.
HInit ==
    /\ pc = "health"
    /\ MonitorIdle
    /\ clock = 1
    /\ discovered_onions = <<>>
    /\ WritersIdle
    /\ NoCall
    /\ service_states = [s \in ServiceIds |-> Null]
    /\ alerts = <<>>
    /\ round = 1
    /\ position = 1
    /\ results = <<>>

HNext == process_health_check

SpecHealth == HInit /\ [][HNext]_vars

-----------------------------------------------------------------------------
(* Properties.                                                             *)

Range(f) == {f[i] : i \in DOMAIN f}

\* The checks rows poll attempt a wrote.
RowsOf(a) == {i \in 1..Len(checks) : rowAttempt[i] = a}

\* The loop has left the iteration of poll attempt a.
Finished(a) ==
    \/ a < Len(attempts)
    \/ a = Len(attempts) /\ pc \in {"fetch", "sleep", "load"}

\* C1: every poll attempt appends exactly one CheckRecord: a finished attempt
\* during which the store accepted every write has exactly one checks row,
\* whichever other step of its processing failed.
C1_OneRowPerAttempt ==
    \A a \in 1..Len(attempts) :
        (Finished(a) /\ "store" \notin Range(attempts[a].raised))
            => Cardinality(RowsOf(a)) = 1

\* C2: every checks row is ok=true with status_code set and error null, or
\* ok=false with error set and status_code, content_sig, final_url and title
\* all null.
C2_RowShape ==
    \A i \in 1..Len(checks) :
        LET r == checks[i]
        IN  \/ r.ok /\ r.status_code # Null /\ r.error = Null
            \/ /\ ~r.ok
               /\ r.error # Null
               /\ r.status_code = Null
               /\ r.content_sig = Null
               /\ r.final_url = Null
               /\ r.title = Null

C2_Witness ==
    \E i, j \in 1..Len(checks) : checks[i].ok /\ ~checks[j].ok

\* C3: a checks row has ok=true if and only if the proxied GET of its poll
\* attempt returned a response.
C3_OkIffFetched ==
    \A i \in 1..Len(checks) : checks[i].ok = attempts[rowAttempt[i]].fetched

\* C4: a fetch that returns a response is recorded ok=true with the
\* response's status code, 4xx and 5xx included; a fail row of such an attempt
\* comes from an exception of a later step, never from the status.
LaterSteps == {"parse", "store", "discovery", "integrity", "mirror"}

C4_StatusNeverFails ==
    /\ \A i \in 1..Len(checks) :
          checks[i].ok =>
              /\ attempts[rowAttempt[i]].fetched
              /\ checks[i].status_code = attempts[rowAttempt[i]].status
    /\ \A a \in 1..Len(attempts) :
          (attempts[a].fetched /\ Finished(a) /\ attempts[a].raised = <<>>) =>
              /\ Cardinality(RowsOf(a)) = 1
              /\ \A i \in RowsOf(a) :
                    checks[i].ok /\ checks[i].status_code = attempts[a].status
    /\ \A i \in 1..Len(checks) :
          (~checks[i].ok /\ attempts[rowAttempt[i]].fetched) =>
              /\ attempts[rowAttempt[i]].raised # <<>>
              /\ Range(attempts[rowAttempt[i]].raised) \subseteq LaterSteps

C4_Witness ==
    \E a \in 1..Len(attempts) :
        /\ Finished(a)
        /\ attempts[a].status = Some(500)
        /\ \E i \in RowsOf(a) : checks[i].ok /\ checks[i].status_code = Some(500)
        /\ \A i \in RowsOf(a) : checks[i].ok

\* C5: a transport failure of the target at one position does not end the
\* cycle: the loop goes on to the next position, and when the cycle is over
\* every position of the list has its own checks row.
C5_FailureIsolation ==
    /\ \A a \in 1..Len(attempts) :
          (/\ ~attempts[a].fetched
           /\ attempts[a].cycle = cycle
           /\ attempts[a].pos < Len(targets)
           /\ Finished(a)) =>
              \/ /\ a < Len(attempts)
                 /\ attempts[a + 1].cycle = cycle
                 /\ attempts[a + 1].pos = attempts[a].pos + 1
              \/ /\ a = Len(attempts)
                 /\ pc = "fetch"
                 /\ idx = attempts[a].pos + 1
    /\ pc = "sleep" =>
          \A p \in 1..Len(targets) :
              \E a \in 1..Len(attempts) :
                  /\ attempts[a].cycle = cycle
                  /\ attempts[a].pos = p
                  /\ attempts[a].target = targets[p]
                  /\ RowsOf(a) # {}

C5_Witness ==
    /\ pc = "sleep"
    /\ Len(targets) >= 2
    /\ \E a \in 1..(Len(attempts) - 1) :
          /\ ~attempts[a].fetched
          /\ attempts[a].cycle = cycle
          /\ attempts[a + 1].pos = attempts[a].pos + 1
          /\ attempts[a + 1].fetched
          /\ \E i \in RowsOf(a + 1) : checks[i].ok

\* C6: the checks ledger is append-only: every step keeps every row that was
\* written, in place and with all its fields.
C6_ChecksAppendOnly ==
    [][/\ Len(checks') >= Len(checks)
       /\ \A i \in 1..Len(checks) : checks'[i] = checks[i]]_vars

C6_Witness ==
    /\ pc = "sleep"
    /\ Len(attempts) = 2
    /\ attempts[1].cycle = 1
    /\ attempts[2].cycle = 2
    /\ attempts[1].target = attempts[2].target
    /\ Len(checks) >= 2

\* The rows of the discovery ledger with this (source_url, discovered_url).
PairRows(table, source, url) ==
    {i \in 1..Len(table) :
        table[i].source_url = source /\ table[i].discovered_url = url}

\* C7: the discovery ledger holds at most one row per (source_url,
\* discovered_url); save_discoveries leaves exactly one row for each pair it
\* was given, adds a row only for a pair that was absent, and a pair that is
\* present raises no error.
C7_DiscoveryUnique ==
    /\ [](\A i, j \in 1..Len(discovered_onions) :
             (/\ discovered_onions[i].source_url = discovered_onions[j].source_url
              /\ discovered_onions[i].discovered_url
                     = discovered_onions[j].discovered_url) => i = j)
    /\ [][(pc = "discover" /\ pc' = "mirror") =>
            LET found == discover_onion_candidates(final_url, html)
            IN  /\ \A d \in found :
                      Cardinality(PairRows(discovered_onions', target, d)) = 1
                /\ Len(discovered_onions') = Len(discovered_onions)
                      + Cardinality({d \in found :
                                       PairRows(discovered_onions, target, d) = {}})]_vars
    /\ [](\A a \in 1..Len(attempts) : "integrity" \notin Range(attempts[a].raised))

C7_Witness ==
    /\ pc = "mirror"
    /\ Len(attempts) = 2
    /\ attempts[1].target = attempts[2].target
    /\ discover_onion_candidates(final_url, html) # {}
    /\ Len(discovered_onions) = Cardinality(discover_onion_candidates(final_url, html))
    /\ \A i \in 1..Len(discovered_onions) : discovered_onions[i].discovered_at < utc_now

C9_DiscoveryImmutable ==
    [][/\ Len(discovered_onions') >= Len(discovered_onions)
       /\ \A i \in 1..Len(discovered_onions) :
             discovered_onions'[i] = discovered_onions[i]]_vars

C9_Witness ==
    /\ pc = "mirror"
    /\ Len(attempts) = 2
    /\ attempts[1].target = attempts[2].target
    /\ attempts[1].cycle < attempts[2].cycle
    /\ \E d \in discover_onion_candidates(final_url, html) :
          \E i \in PairRows(discovered_onions, target, d) :
              discovered_onions[i].discovered_at < checked_at

\* C10: recently_seen_signature never returns the excluded current target,
\* for every signature and every target.
Signatures == {content_signature(r.html) : r \in Responses}
KnownTargets == {T1, T2, T3}

C10_ExcludesCurrent ==
    \A s \in Signatures, t \in KnownTargets :
        t \notin Range(recently_seen_signature(checks, s, t))

C10_Witness ==
    \E s \in Signatures, t \in KnownTargets :
        /\ \E i \in 1..Len(checks) :
              checks[i].target_url = t /\ checks[i].content_sig = Some(s)
        /\ recently_seen_signature(checks, s, t) # <<>>
        /\ Cardinality({p \in 1..Len(targets) : targets[p] = t}) >= 2

\* The targets other than `excluded` with a checks row of signature s.
OthersWith(s, excluded) ==
    {checks[i].target_url : i \in {j \in 1..Len(checks) :
        checks[j].content_sig = Some(s) /\ checks[j].target_url # excluded}}

\* C11 as stated: whenever two different targets A and B have rows with the
\* same signature s, the mirror query for s excluding A returns B (and, A
\* being any of the two, the one excluding B returns A).
C11_Symmetric ==
    result # Null =>
        (arg[2] \in OthersWith(arg[1], <<>>) =>
            OthersWith(arg[1], arg[2]) \subseteq Range(result[1]))

\* C11 amended: the same, when at most MirrorLimit targets other than the
\* excluded one have rows with s.
C11_SymmetricWithinLimit ==
    result # Null =>
        ((/\ arg[2] \in OthersWith(arg[1], <<>>)
          /\ Cardinality(OthersWith(arg[1], arg[2])) <= MirrorLimit) =>
            OthersWith(arg[1], arg[2]) \subseteq Range(result[1]))

C11_Witness ==
    /\ result # Null
    /\ arg[2] \in OthersWith(arg[1], <<>>)
    /\ Cardinality(OthersWith(arg[1], arg[2])) = MirrorLimit
    /\ Range(result[1]) = OthersWith(arg[1], arg[2])

\* C12: the mirror query returns at most 5 entries, no target twice, and
\* every returned target has a checks row with the queried signature, its
\* latest row or an older one.
C12_LimitDistinctMatching ==
    result # Null =>
        /\ Len(result[1]) <= 5
        /\ \A i, j \in 1..Len(result[1]) : result[1][i] = result[1][j] => i = j
        /\ Range(result[1]) \subseteq OthersWith(arg[1], arg[2])

C12_Witness ==
    /\ result # Null
    /\ Len(result[1]) = 5
    /\ Cardinality(OthersWith(arg[1], arg[2])) > 5
    /\ \E t \in Range(result[1]) :
          \E i, j \in 1..Len(checks) :
              /\ i < j
              /\ checks[i].target_url = t
              /\ checks[j].target_url = t

\* The checked_at of the latest row of target t with signature s.
LatestMatch(s, t) ==
    LET at == {checks[i].checked_at : i \in {j \in 1..Len(checks) :
                  checks[j].content_sig = Some(s) /\ checks[j].target_url = t}}
    IN  CHOOSE m \in at : \A n \in at : n <= m

\* C13: the mirror query lists the matching targets by the time of their
\* latest matching check, latest first, and the targets it leaves out have
\* no later matching check than the ones it returns.
C13_OrderedByRecency ==
    result # Null =>
        /\ \A i, j \in 1..Len(result[1]) :
              i < j => LatestMatch(arg[1], result[1][i])
                           >= LatestMatch(arg[1], result[1][j])
        /\ \A t \in OthersWith(arg[1], arg[2]) \ Range(result[1]) :
              \A u \in Range(result[1]) :
                  LatestMatch(arg[1], u) >= LatestMatch(arg[1], t)

\* The first pass over a list of two different targets has ended, both
\* fetches returned, the store accepted every write, and both polls recorded
\* an ok row with the signature s.
TwoAlike(s) ==
    /\ pc = "sleep"
    /\ cycle = 1
    /\ Len(targets) = 2
    /\ targets[1] # targets[2]
    /\ Len(attempts) = 2
    /\ \A a \in 1..2 :
          /\ attempts[a].fetched
          /\ "store" \notin Range(attempts[a].raised)
          /\ \E i \in RowsOf(a) : checks[i].ok /\ checks[i].content_sig = Some(s)

\* C14: from an empty store, after one pass over two different targets whose
\* fetches succeed with the same normalized HTML, checks holds exactly two
\* rows, both ok with the same signature, and the mirror query for that
\* signature excluding either target returns the other.
C14_TwoAlikeTargets ==
    \A s \in Signatures :
        TwoAlike(s) =>
            /\ Len(checks) = 2
            /\ \A i \in 1..Len(checks) : checks[i].ok /\ checks[i].content_sig = Some(s)
            /\ targets[2] \in Range(recently_seen_signature(checks, s, targets[1]))
            /\ targets[1] \in Range(recently_seen_signature(checks, s, targets[2]))

\* hashlib.sha256("".encode()).hexdigest(): the digest of no text.
EmptyDigest == Sha256(normalize_text(PEmpty))

\* C15: a successful fetch whose body is empty or has no visible text is
\* recorded with content_sig NULL: no ok row carries the digest of the empty
\* string.
C15_NoEmptyDigest ==
    \A i \in 1..Len(checks) :
        checks[i].ok => checks[i].content_sig # Some(EmptyDigest)

\* The fingerprint recorded by poll attempt a is missing or that of no text.
NoContent(a) ==
    \A i \in RowsOf(a) :
        checks[i].ok => checks[i].content_sig \in {Null, Some(EmptyDigest)}

\* C16: targets whose checks failed or whose pages have no content are never
\* reported as mirrors: no mirror line is printed by a poll whose
\* fingerprint is missing or that of no text.
C16_NoMirrorWithoutContent ==
    \A k \in 1..Len(stdout) :
        stdout[k].kind = "mirror" => ~NoContent(stdout[k].att)

\* C20: a failed write to the store halts the monitor: a poll attempt during
\* which an INSERT or commit failed is the last thing the process does, it
\* does not go on to the next target or to the sleep, and it leaves no
\* ok=false row.
C20_StoreFailureHalts ==
    \A a \in 1..Len(attempts) :
        "store" \in Range(attempts[a].raised) =>
            /\ ~Finished(a)
            /\ \A i \in RowsOf(a) : checks[i].ok

\* C18: every candidate of discover_onion_candidates is http://<hostname>/
\* with the hostname in lowercase, and one hostname, in whatever letter case
\* and by whichever of the two passes it is found, gives one candidate.
C18_CanonicalCandidates ==
    result # Null =>
        /\ \A u \in result[1] : u[1] = "http" /\ u[3] = "/" /\ u[2] = Lower(u[2])
        /\ \A u, v \in result[1] : Lower(u[2]) = Lower(v[2]) => u = v

\* The onion-like names of a page: those of its raw text and the hosts its
\* anchors resolve to.
NamesOf(base_url, page) ==
    {w \in page.raw \cup {urljoin(base_url, a)[2] : a \in page.hrefs} :
        LabelLength(w) > 0}

\* C19: only labels of exactly 56 characters match: a page whose onion-like
\* names all have a label of 55 or of 57 characters gives no candidate.
C19_ExactLabelLength ==
    result # Null =>
        ((/\ NamesOf(arg[1], arg[2]) # {}
          /\ \A w \in NamesOf(arg[1], arg[2]) :
                LabelLength(w) \in {OnionLabelLen - 1, OnionLabelLen + 1})
            => result[1] = {})

\* The text a reader sees: the text nodes in document order with nothing
\* between them, up to whitespace runs and letter case.
VisibleText(nodes) == LowerText(StripText(Collapse(Join(nodes, <<>>))))

\* C17: content_signature gives the same digest for two HTML inputs with the
\* same visible text up to whitespace runs and letter case, whatever their
\* markup, comments, script and style blocks.
C17_SameTextSameDigest ==
    result # Null =>
        (VisibleText(arg[1]) = VisibleText(arg[2]) => result[1][1] = result[1][2])

\* C21: no error raised while a target is processed escapes its iteration,
\* a failed store write apart: run() is left only from the except block and
\* only when the write of the fail row failed, and once the fail row of a
\* transport, parse or extraction error is committed the loop is at the next
\* target of the list, or at the sleep after the last one.
C21_NothingEscapes ==
    [][/\ (pc' = "halted" /\ pc \in {"fetch", "record", "discover", "mirror", "handler"}) =>
              (pc = "handler" /\ checks' = checks)
       /\ (pc = "handler" /\ checks' # checks) =>
              IF idx < Len(targets)
              THEN pc' = "fetch" /\ idx' = idx + 1
              ELSE pc' = "sleep"]_vars

C21_Witness ==
    \E a \in 1..(Len(attempts) - 1) :
        /\ \E c \in {"parse", "discovery"} : attempts[a].raised = <<c>>
        /\ attempts[a + 1].cycle = attempts[a].cycle
        /\ attempts[a + 1].pos = attempts[a].pos + 1
        /\ RowsOf(a + 1) # {}

\* C22: the poll loop has no terminal state: nothing inside the monitor, be
\* it an empty target list, a failed target or an unreadable target file,
\* ends the loop; run() is left at most by a store write that fails in the
\* except block.
C22_NoTerminalState ==
    [][(pc' = "halted" /\ pc # "halted") => pc = "handler"]_vars

\* C23: the target list is read once at the start of each cycle: the read
\* takes the file as it is then, no other step changes the list in force,
\* an edit of the file leaves it alone, and every poll is of the entry of
\* that list at its position.
C23_ReadOncePerCycle ==
    [][/\ (pc = "load" /\ pc' \in {"fetch", "sleep"}) =>
              targets' = load_targets(targetsFile)
       /\ (pc # "load" \/ targetsFile' # targetsFile) => targets' = targets
       /\ Len(attempts') > Len(attempts) =>
              /\ attempts'[Len(attempts')].target = targets[idx]
              /\ attempts'[Len(attempts')].cycle = cycle]_vars

\* The file was cut down to one entry during the first cycle, which went on
\* to poll the second entry of the list it had read.
C23_Witness ==
    /\ cycle = 1
    /\ targetsFile = FileOne
    /\ targets = load_targets(FileTwo)
    /\ Len(attempts) = 2
    /\ attempts[2].pos = 2
    /\ attempts[2].target = T2

\* C24: the targets of a cycle are processed one after the other in list
\* order: when the fetch of a later poll has started, the CheckRecord of
\* every earlier poll is committed, the polls of one cycle follow the list
\* positions, and the rows of the ledger are in the order of the polls.
C24_Sequential ==
    /\ \A a \in 1..(Len(attempts) - 1) :
          /\ RowsOf(a) # {}
          /\ attempts[a + 1].cycle = attempts[a].cycle =>
                attempts[a + 1].pos = attempts[a].pos + 1
          /\ attempts[a + 1].cycle # attempts[a].cycle =>
                (attempts[a + 1].pos = 1 /\ attempts[a + 1].cycle > attempts[a].cycle)
    /\ \A i, j \in 1..Len(checks) :
          i < j => (rowAttempt[i] <= rowAttempt[j]
                    /\ checks[i].checked_at <= checks[j].checked_at)

C24_Witness ==
    /\ Len(attempts) = 2
    /\ attempts[2].cycle = attempts[1].cycle
    /\ attempts[1].target # attempts[2].target
    /\ pc = "record"
    /\ RowsOf(1) # {}
    /\ RowsOf(2) = {}

\* The positions of the list in force that hold the URL u.
PositionsOf(u) == {p \in 1..Len(targets) : targets[p] = u}

\* The rows the polls of the current cycle wrote for the URL u.
CycleRowsOf(u) ==
    {i \in 1..Len(checks) :
        attempts[rowAttempt[i]].cycle = cycle /\ checks[i].target_url = u}

\* C25: each entry of the list is fetched exactly once per cycle: when a cycle
\* whose store writes all succeeded ends, every position has exactly one poll
\* and a URL that is k times in the list has k ledger rows of that cycle.
C25_OncePerEntry ==
    (/\ pc = "sleep"
     /\ \A a \in 1..Len(attempts) : "store" \notin Range(attempts[a].raised)) =>
        /\ \A p \in 1..Len(targets) :
              Cardinality({a \in 1..Len(attempts) :
                  attempts[a].cycle = cycle /\ attempts[a].pos = p}) = 1
        /\ \A u \in Range(targets) :
              Cardinality(CycleRowsOf(u)) = Cardinality(PositionsOf(u))

\* The lines of a file that are not blank and whose first non-whitespace
\* character is not '#', in file order.
RECURSIVE KeptLines(_)
KeptLines(file) ==
    IF file = <<>> THEN <<>>
    ELSE (IF Head(file).text = <<>> \/ Head(file).text[1] = "#"
          THEN <<>> ELSE <<Head(file)>>) \o KeptLines(Tail(file))

\* C26 as stated: load_targets returns, in file order and with duplicates,
\* the lines that are neither blank nor comments, each one verbatim.
C26_LinesVerbatim ==
    result # Null =>
        /\ Len(result[1]) = Len(KeptLines(arg))
        /\ \A i \in 1..Len(result[1]) : Line(0, result[1][i], 0) = KeptLines(arg)[i]

\* C26 amended: the same, each returned entry being the line without its
\* leading and trailing whitespace.
C26_LinesStripped ==
    result # Null =>
        /\ Len(result[1]) = Len(KeptLines(arg))
        /\ \A i \in 1..Len(result[1]) :
              Line(0, result[1][i], 0) = [KeptLines(arg)[i] EXCEPT !.lead = 0, !.trail = 0]

C26_Witness ==
    /\ result # Null
    /\ Len(arg) = 3
    /\ arg[2].text # T2
    /\ result[1] = <<T2, T2>>

\* C27: schema creation is idempotent: init_db on a store that holds both
\* tables raises nothing and leaves every row of both ledgers as it was,
\* and running it once more changes nothing.
C27_InitDbIdempotent ==
    result # Null =>
        /\ ~result[1].raised
        /\ result[1].db.checks # Null /\ result[1].db.discovered_onions # Null
        /\ arg.checks # Null => result[1].db = arg
        /\ init_db(result[1].db) = result[1]

C27_Witness ==
    /\ result # Null
    /\ arg.checks # Null
    /\ Len(arg.checks[1]) = 2
    /\ Len(arg.discovered_onions[1]) = 2
    /\ result[1].db.checks = arg.checks

\* The lines poll attempt a printed, by kind.
LinesOf(a, kind) == {k \in 1..Len(stdout) : stdout[k].att = a /\ stdout[k].kind = kind}

\* The targets other than that of row i whose earlier rows carry its signature.
EarlierAlike(i) ==
    {checks[j].target_url : j \in {k \in 1..(i - 1) :
        /\ checks[k].content_sig = checks[i].content_sig
        /\ checks[k].target_url # checks[i].target_url}}

\* C28: mirrors are reported when they arise: a poll that is recorded ok with
\* a non-null signature which an earlier row of another target carries has
\* printed, when it ends, a mirror warning naming at least one such target
\* (the store and the mirror query not failing).
C28_MirrorsReported ==
    \A a \in 1..Len(attempts) :
        (/\ Finished(a)
         /\ "store" \notin Range(attempts[a].raised)
         /\ "mirror" \notin Range(attempts[a].raised)) =>
            \A i \in RowsOf(a) :
                (checks[i].ok /\ checks[i].content_sig # Null /\ EarlierAlike(i) # {}) =>
                    \E k \in LinesOf(a, "mirror") :
                        Range(stdout[k].urls) \cap EarlierAlike(i) # {}

\* C29: a poll prints a redirect notice exactly if it is recorded ok with a
\* final_url other than its target_url, a poll recorded ok prints the ok
\* line, and a failed poll prints the fail line only (the store accepting
\* every write).
C29_LinesMatchRecord ==
    \A a \in 1..Len(attempts) :
        (Finished(a) /\ "store" \notin Range(attempts[a].raised)) =>
            LET okRows == {i \in RowsOf(a) : checks[i].ok}
            IN  /\ LinesOf(a, "redirect") # {} <=>
                       \E i \in okRows : checks[i].final_url # Some(checks[i].target_url)
                /\ okRows # {} => LinesOf(a, "ok") # {}
                /\ okRows = {} =>
                       /\ Cardinality(LinesOf(a, "fail")) = 1
                       /\ \A k \in 1..Len(stdout) :
                             stdout[k].att = a => stdout[k].kind = "fail"

\* C30: no DiscoveryRecord is written for an endpoint that is a configured
\* target: every row a step adds to discovered_onions has a discovered_url
\* that is no entry of the list in force, the polled target included.
C30_DiscoveriesAreNew ==
    [][\A i \in (Len(discovered_onions) + 1)..Len(discovered_onions') :
           discovered_onions'[i].discovered_url \notin Range(targets)]_vars

\* C31: every row of the discovery ledger has the source_url of an ok check
\* row of that target (not of the redirect's final URL) committed before it:
\* in every state such a check row is in the ledger, and it is there before
\* the step that commits the discovery.
C31_DiscoveryHasCheck ==
    /\ [](\A d \in 1..Len(discovered_onions) :
              \E i \in 1..Len(checks) :
                  /\ checks[i].ok
                  /\ checks[i].target_url = discovered_onions[d].source_url
                  /\ checks[i].checked_at <= discovered_onions[d].discovered_at)
    /\ [][\A d \in (Len(discovered_onions) + 1)..Len(discovered_onions') :
              \E i \in 1..Len(checks) :
                  /\ checks[i].ok
                  /\ checks[i].target_url = discovered_onions'[d].source_url
                  /\ rowAttempt[i] = att]_vars

\* Discoveries of a poll that was redirected are filed under its target.
C31_Witness ==
    /\ discovered_onions # <<>>
    /\ \E i \in 1..Len(checks) :
          /\ checks[i].ok
          /\ checks[i].final_url # Some(checks[i].target_url)
          /\ checks[i].target_url = discovered_onions[1].source_url

\* C32: a mirror warning printed while target T is processed names only
\* targets other than T that have, from an earlier poll, a committed checks
\* row with the signature recorded for T; so the first poll on an empty
\* store prints no mirror warning.
C32_MirrorsNameEarlierRows ==
    /\ \A k \in 1..Len(stdout) :
          stdout[k].kind = "mirror" =>
              /\ stdout[k].urls # <<>>
              /\ \A u \in Range(stdout[k].urls) :
                    /\ u # stdout[k].target
                    /\ \E i, j \in 1..Len(checks) :
                          /\ rowAttempt[j] = stdout[k].att
                          /\ checks[j].ok
                          /\ checks[j].target_url = stdout[k].target
                          /\ rowAttempt[i] < stdout[k].att
                          /\ checks[i].target_url = u
                          /\ checks[i].content_sig # Null
                          /\ checks[i].content_sig = checks[j].content_sig
    /\ LinesOf(1, "mirror") = {}

\* Two targets with the same content in the first cycle: the second poll
\* prints the warning naming the first, the first poll prints none.
C32_Witness ==
    /\ pc = "sleep"
    /\ cycle = 1
    /\ Len(attempts) = 2
    /\ LinesOf(1, "mirror") = {}
    /\ \E k \in LinesOf(2, "mirror") : stdout[k].urls = <<attempts[1].target>>
    /\ attempts[1].target # attempts[2].target

\* The file cannot be read as UTF-8 text.
Unreadable(file) == \E i \in 1..Len(file) : file[i].text = <<"0xFF">>

\* C33: a failure to read the target list at the start of a cycle is not
\* isolated: the read of an unreadable file ends run() at once, writes no
\* row and leaves every row of both ledgers as it is; no poll of the cycle
\* has been made at that point and none is made afterwards.
C33_LoadFailureEndsRun ==
    /\ [](pc = "load" => \A a \in 1..Len(attempts) : attempts[a].cycle < cycle)
    /\ [][(pc = "load" /\ Unreadable(targetsFile) /\ targetsFile' = targetsFile) =>
              /\ pc' = "halted"
              /\ checks' = checks
              /\ discovered_onions' = discovered_onions
              /\ attempts' = attempts
              /\ stdout' = stdout]_vars
    /\ [][pc # "halted"]_vars

C33_Witness ==
    /\ pc = "halted"
    /\ cycle = 2
    /\ Unreadable(targetsFile)
    /\ checks # <<>>
    /\ \A a \in 1..Len(attempts) : attempts[a].cycle = 1

\* The number of consecutive non-healthy results of service s up to and
\* including check c, counted on the history of results.
RECURSIVE Streak(_, _)
Streak(s, c) ==
    IF c = 0 THEN 0
    ELSE IF results[c].service # s THEN Streak(s, c - 1)
    ELSE IF results[c].healthy THEN 0
    ELSE 1 + Streak(s, c - 1)

\* The alerts with this title sent for service s at check c.
AlertsAt(title, s, c) ==
    {k \in 1..Len(alerts) :
        alerts[k].title = title /\ alerts[k].service = s /\ alerts[k].check = c}

\* C34: for a service that is not optional a Service Down alert is sent
\* exactly once per outage, at the check where the count of consecutive
\* non-healthy results (degraded included) reaches failure_threshold, at no
\* other check, and the count kept for the service is the number of its
\* non-healthy results since its last healthy one.
C34_DownOncePerOutage ==
    /\ \A c \in 1..Len(results) :
          results[c].service = "fresh_api" =>
              Cardinality(AlertsAt("Service Down", "fresh_api", c)) =
                  IF ~results[c].healthy /\ Streak("fresh_api", c) = failure_threshold
                  THEN 1 ELSE 0
    /\ service_states["fresh_api"] # Null =>
          service_states["fresh_api"][1].consecutive_failures
              = Streak("fresh_api", Len(results))

\* An outage that lasts beyond the threshold, reported once, on a degraded
\* result.
C34_Witness ==
    /\ Streak("fresh_api", Len(results)) > failure_threshold
    /\ \E k \in 1..Len(alerts) :
          /\ alerts[k].title = "Service Down"
          /\ alerts[k].status = "degraded"
          /\ \A j \in 1..Len(alerts) : alerts[j].title = "Service Down" => j = k

\* C35: every Service Recovered alert of a service follows a Service Down
\* alert of the same service with no healthy result of that service between
\* the two, for optional services as for the others.
C35_RecoveredAfterDown ==
    \A k \in 1..Len(alerts) :
        alerts[k].title = "Service Recovered" =>
            \E j \in 1..(k - 1) :
                /\ alerts[j].title = "Service Down"
                /\ alerts[j].service = alerts[k].service
                /\ \A c \in (alerts[j].check + 1)..(alerts[k].check - 1) :
                      results[c].service = alerts[k].service => ~results[c].healthy

\* The alerts sent for service s, in order.
AlertsOf(log, s) == SelectSeq(log, LAMBDA a : a.service = s)

\* C36: an optional service never causes a Service Down alert, however long
\* it fails, and a check of it changes neither the state nor the alerts of
\* another service.
C36_OptionalNeverDown ==
    /\ [](\A k \in 1..Len(alerts) :
              alerts[k].title = "Service Down" => alerts[k].service # "fresh_api_vpn")
    /\ [][(Len(results') > Len(results)
              /\ results'[Len(results')].service = "fresh_api_vpn") =>
              /\ service_states'["fresh_api"] = service_states["fresh_api"]
              /\ AlertsOf(alerts', "fresh_api") = AlertsOf(alerts, "fresh_api")]_vars

\* The optional service has failed beyond the threshold while the other
\* one was reported down.
C36_Witness ==
    /\ Streak("fresh_api_vpn", Len(results)) > failure_threshold
    /\ Len(alerts) = 1
    /\ alerts[1].title = "Service Down"
    /\ alerts[1].service = "fresh_api"

====
